---- MODULE Spec2Model ----
(***************************************************************************)
(* Dependency-graph pipeline of pr2-s1.py: parse_packages_index,           *)
(* extract_direct_dependencies, dfs_build_graph, topological_sort and the  *)
(* part of main that chains them.                                          *)
(*                                                                         *)
(* Strings are sequences of atoms.  An atom is a character, or a run of    *)
(* characters none of which is special to the code that handles the        *)
(* string (no whitespace, colon, comma, bar, bracket).                     *)
(***************************************************************************)
EXTENDS Integers, Sequences, FiniteSets, TLC

VARIABLES
    \* main / dfs_build_graph / topological_sort
    package_graph,      \* adjacency source handed to dfs_build_graph (a dict)
    root_package,       \* root name
    filter_substring,   \* --filter_substring ('' when not given)
    visited,            \* dfs_build_graph: visited
    current_path,       \* dfs_build_graph: current_path
    result,             \* dfs_build_graph: result
    cycles_found,       \* dfs_build_graph: cycles_found
    frames,             \* call stack of dfs_build_graph: <<[package, i]>>
    returned,           \* what the outermost dfs_build_graph call returned
    in_degree,          \* topological_sort: in_degree
    queue,              \* topological_sort: queue
    install_order,      \* topological_sort: result
    pc,                 \* position in main
    \* extract_direct_dependencies
    depends_field,      \* argument
    dependencies,       \* returned list
    \* parse_packages_index
    packages_data,      \* argument: the index text
    packages            \* returned dict

dfsVars == <<package_graph, root_package, filter_substring, visited,
             current_path, result, cycles_found, frames, returned,
             in_degree, queue, install_order>>
depVars == <<depends_field, dependencies>>
idxVars == <<packages_data, packages>>
vars == <<dfsVars, pc, depVars, idxVars>>

----------------------------------------------------------------------------
(* Bounds *)

\* total number of dependency entries in the adjacency source
MaxEdges == 3

\* length of the Depends field, in atoms
MaxFieldLen == 4

\* number of lines of the index text
MaxLines == 5

----------------------------------------------------------------------------
(* Strings *)

Range(s) == {s[i] : i \in DOMAIN s}

\* str.lower() on one character
LowerChar(c) ==
    CASE c = "A" -> "a"
      [] c = "B" -> "b"
      [] c = "C" -> "c"
      [] c = "L" -> "l"
      [] OTHER -> c

\* str.lower()
Lower(s) == [i \in DOMAIN s |-> LowerChar(s[i])]

\* sub in s
Contains(sub, s) ==
    \E i \in 0..(Len(s) - Len(sub)) : SubSeq(s, i + 1, i + Len(sub)) = sub

\* filter_substring and filter_substring.lower() in package.lower()
Filtered(flt, package) ==
    flt # <<>> /\ Contains(Lower(flt), Lower(package))

\* str.split(sep) for a separator of one atom
RECURSIVE Split(_, _)
Split(s, sep) ==
    IF sep \notin Range(s) THEN <<s>>
    ELSE LET i == CHOOSE k \in DOMAIN s :
                      s[k] = sep /\ \A j \in 1..(k - 1) : s[j] # sep
         IN <<SubSeq(s, 1, i - 1)>> \o Split(SubSeq(s, i + 1, Len(s)), sep)

Whitespace == {" ", "\n"}

\* str.strip()
RECURSIVE Strip(_)
Strip(s) ==
    IF s = <<>> THEN s
    ELSE IF s[1] \in Whitespace THEN Strip(Tail(s))
    ELSE IF s[Len(s)] \in Whitespace THEN Strip(SubSeq(s, 1, Len(s) - 1))
    ELSE s

\* str.split(): the runs of non-whitespace atoms
RECURSIVE SplitWhitespace(_)
SplitWhitespace(s) ==
    LET t == Strip(s)
    IN IF t = <<>> THEN <<>>
       ELSE IF \A k \in DOMAIN t : t[k] \notin Whitespace THEN <<t>>
       ELSE LET i == CHOOSE k \in DOMAIN t :
                         /\ t[k] \in Whitespace
                         /\ \A j \in 1..(k - 1) : t[j] \notin Whitespace
            IN <<SubSeq(t, 1, i - 1)>>
                 \o SplitWhitespace(SubSeq(t, i + 1, Len(t)))

\* the lists that list(set(...)) can give for the set S
ListsOf(S) == {l \in [1..Cardinality(S) -> S] : Range(l) = S}

\* ' -> '.join(path)
RECURSIVE JoinArrow(_)
JoinArrow(path) ==
    IF path = <<>> THEN <<>>
    ELSE IF Len(path) = 1 THEN path[1]
    ELSE path[1] \o <<" -> ">> \o JoinArrow(Tail(path))

----------------------------------------------------------------------------
(* Inputs *)

PkgA == <<"A">>
PkgB == <<"B">>
PkgC == <<"C">>
PkgLC == <<"L", "C">>

Names == {PkgA, PkgB, PkgC, PkgLC}

Filters == {<<>>, <<"c">>, <<"L">>}

DepLists(k) == UNION {[1..n -> Names] : n \in 0..k}

\* every assignment of dependency lists to the names of S with at most k
\* entries in total
RECURSIVE Adjacency(_, _)
Adjacency(S, k) ==
    IF S = {} THEN {<<>>}
    ELSE LET n == CHOOSE x \in S : TRUE
         IN UNION {{(n :> d) @@ f : f \in Adjacency(S \ {n}, k - Len(d))}
                     : d \in DepLists(k)}

AdjacencySources == Adjacency(Names, MaxEdges)

\* the dict with the keys of K only: a name that is no key is a package the
\* source does not describe
Restrict(g, K) == [n \in K |-> g[n]]

----------------------------------------------------------------------------
(* dfs_build_graph *)

\* graph.get(package, [])
Get(graph, package) ==
    IF package \in DOMAIN graph THEN graph[package] ELSE <<>>

Top == frames[Len(frames)]

\* the call in progress: the outermost one, or the one made from the
\* for-loop of the frame on top
Calling ==
    /\ pc = "dfs"
    /\ IF frames = <<>> THEN TRUE
       ELSE Top.i <= Len(Get(package_graph, Top.package))

Callee ==
    IF frames = <<>> THEN root_package
    ELSE Get(package_graph, Top.package)[Top.i]

\* AppendEdge without the test of line 130
AppendEdgeAlways(res, package, dep) ==
    [res EXCEPT ![package] = Append(@, dep)]

\* lines 130-131 in the caller, after the call for dep returned
AppendEdge(res, package, dep) ==
    IF Filtered(filter_substring, dep) THEN res
    ELSE [res EXCEPT ![package] = Append(@, dep)]

\* the call for Callee returned to the frame on top of stk (lines 128-131),
\* or to main when there is none (line 460)
ReturnTo(stk, res, dep, value) ==
    IF stk = <<>>
    THEN /\ frames' = stk
         /\ result' = res
         /\ returned' = value
         /\ pc' = "unpack"
    ELSE /\ frames' = [stk EXCEPT ![Len(stk)].i = @ + 1]
         /\ result' = AppendEdge(res, stk[Len(stk)].package, dep)
         /\ UNCHANGED <<returned, pc>>

\* main, lines 459-464: the call with fresh visited, current_path, result
\* and cycles_found (lines 92-99)
MainCall ==
    /\ pc = "main"
    /\ pc' = "dfs"
    /\ visited' = {}
    /\ current_path' = <<>>
    /\ result' = <<>>
    /\ cycles_found' = <<>>
    /\ frames' = <<>>
    /\ UNCHANGED <<package_graph, root_package, filter_substring, returned,
                   in_degree, queue, install_order, depVars, idxVars>>

\* lines 101-103
DfsFiltered ==
    /\ Calling
    /\ Filtered(filter_substring, Callee)
    /\ ReturnTo(frames, result, Callee, "result")
    /\ UNCHANGED <<package_graph, root_package, filter_substring, visited,
                   current_path, cycles_found, in_degree, queue,
                   install_order, depVars, idxVars>>

\* DfsCycle with the test of line 109 inverted: the record is never stored
DfsCycleUnrecorded ==
    /\ Calling
    /\ ~Filtered(filter_substring, Callee)
    /\ Callee \in Range(current_path)
    /\ ReturnTo(frames, result, Callee, "result")
    /\ UNCHANGED <<package_graph, root_package, filter_substring, visited,
                   current_path, cycles_found, in_degree, queue,
                   install_order, depVars, idxVars>>

\* lines 105-111
DfsCycle ==
    /\ Calling
    /\ ~Filtered(filter_substring, Callee)
    /\ Callee \in Range(current_path)
    /\ LET cycle_path == JoinArrow(Append(current_path, Callee))
       IN cycles_found' = IF cycle_path \in Range(cycles_found)
                          THEN cycles_found
                          ELSE Append(cycles_found, cycle_path)
    /\ ReturnTo(frames, result, Callee, "result")
    /\ UNCHANGED <<package_graph, root_package, filter_substring, visited,
                   current_path, in_degree, queue, install_order,
                   depVars, idxVars>>

\* lines 113-115
DfsVisited ==
    /\ Calling
    /\ ~Filtered(filter_substring, Callee)
    /\ Callee \notin Range(current_path)
    /\ Callee \in visited
    /\ ReturnTo(frames, result, Callee, "result")
    /\ UNCHANGED <<package_graph, root_package, filter_substring, visited,
                   current_path, cycles_found, in_degree, queue,
                   install_order, depVars, idxVars>>

\* DfsExpand without line 117: the package is not marked visited
DfsExpandUnmarked ==
    /\ Calling
    /\ ~Filtered(filter_substring, Callee)
    /\ Callee \notin Range(current_path)
    /\ Callee \notin visited
    /\ current_path' = Append(current_path, Callee)
    /\ result' = IF Callee \in DOMAIN result THEN result
                 ELSE result @@ (Callee :> <<>>)
    /\ frames' = Append(frames, [package |-> Callee, i |-> 1])
    /\ UNCHANGED <<package_graph, root_package, filter_substring, visited,
                   cycles_found, returned, in_degree, queue, install_order,
                   pc, depVars, idxVars>>

\* lines 117-125: the package is expanded
DfsExpand ==
    /\ Calling
    /\ ~Filtered(filter_substring, Callee)
    /\ Callee \notin Range(current_path)
    /\ Callee \notin visited
    /\ visited' = visited \cup {Callee}
    /\ current_path' = Append(current_path, Callee)
    /\ result' = IF Callee \in DOMAIN result THEN result
                 ELSE result @@ (Callee :> <<>>)
    /\ frames' = Append(frames, [package |-> Callee, i |-> 1])
    /\ UNCHANGED <<package_graph, root_package, filter_substring,
                   cycles_found, returned, in_degree, queue, install_order,
                   pc, depVars, idxVars>>

\* lines 133-134: the for-loop of the frame on top is over
DfsReturn ==
    /\ pc = "dfs"
    /\ frames # <<>>
    /\ Top.i > Len(Get(package_graph, Top.package))
    /\ current_path' = SubSeq(current_path, 1, Len(current_path) - 1)
    /\ ReturnTo(SubSeq(frames, 1, Len(frames) - 1), result, Top.package,
                "tuple")
    /\ UNCHANGED <<package_graph, root_package, filter_substring, visited,
                   cycles_found, in_degree, queue, install_order,
                   depVars, idxVars>>

\* main, line 460: "full_graph, cycles_found = <returned value>" with the
\* tuple of line 134
MainUnpack ==
    /\ pc = "unpack"
    /\ returned = "tuple"
    /\ pc' = "print"
    /\ UNCHANGED <<dfsVars, depVars, idxVars>>

\* main, line 460 with the bare result dict of lines 103, 111, 115: the
\* unpacking iterates over the dict's keys.  With other than two keys it
\* raises ValueError; with two, full_graph is bound to a key (a str) and
\* print_dependency_graph raises AttributeError at graph.get (line 307).
\* Either way the handler of lines 496-498 ends the run with exit code 1.
MainCritical ==
    /\ pc = "unpack"
    /\ returned = "result"
    /\ pc' = "critical"
    /\ UNCHANGED <<dfsVars, depVars, idxVars>>

----------------------------------------------------------------------------
(* topological_sort, called at line 313 with graph = full_graph *)

\* lines 138-148
InDegree(graph) ==
    LET edges == UNION {{<<p, i>> : i \in DOMAIN graph[p]} : p \in DOMAIN graph}
        nodes == DOMAIN graph \cup {graph[e[1]][e[2]] : e \in edges}
    IN [n \in nodes |->
          Cardinality({e \in edges : graph[e[1]][e[2]] = n})]

\* Relax without the in-degree count: every neighbour that is not filtered
\* is enqueued as soon as it is seen
RECURSIVE RelaxUncounted(_, _, _)
RelaxUncounted(neighbors, deg, q) ==
    IF neighbors = <<>> THEN [in_degree |-> deg, queue |-> q]
    ELSE LET neighbor == Head(neighbors)
         IN RelaxUncounted(Tail(neighbors), deg,
                IF ~Filtered(filter_substring, neighbor)
                THEN Append(q, neighbor) ELSE q)

\* lines 165-169: the for-loop over the neighbours of the dequeued node
RECURSIVE Relax(_, _, _)
Relax(neighbors, deg, q) ==
    IF neighbors = <<>> THEN [in_degree |-> deg, queue |-> q]
    ELSE LET neighbor == Head(neighbors)
             d == [deg EXCEPT ![neighbor] = @ - 1]
         IN Relax(Tail(neighbors), d,
                  IF d[neighbor] = 0 /\ ~Filtered(filter_substring, neighbor)
                  THEN Append(q, neighbor) ELSE q)

\* lines 138-160
TopoCall ==
    /\ pc = "print"
    /\ in_degree' = InDegree(result)
    /\ queue' = IF root_package \in DOMAIN in_degree'
                   /\ in_degree'[root_package] = 0
                THEN <<root_package>> ELSE <<>>
    /\ install_order' = <<>>
    /\ pc' = IF Filtered(filter_substring, root_package)
             THEN "success" ELSE "topo"
    /\ UNCHANGED <<package_graph, root_package, filter_substring, visited,
                   current_path, result, cycles_found, frames, returned,
                   depVars, idxVars>>

\* lines 161-169: one iteration of the while-loop
TopoLoop ==
    /\ pc = "topo"
    /\ queue # <<>>
    /\ LET node == Head(queue)
           r == Relax(Get(result, node), in_degree, Tail(queue))
       IN /\ install_order' = Append(install_order, node)
          /\ in_degree' = r.in_degree
          /\ queue' = r.queue
    /\ UNCHANGED <<package_graph, root_package, filter_substring, visited,
                   current_path, result, cycles_found, frames, returned,
                   pc, depVars, idxVars>>

\* line 171, then lines 315-326 and 482: main ends normally
TopoReturn ==
    /\ pc = "topo"
    /\ queue = <<>>
    /\ pc' = "success"
    /\ UNCHANGED <<dfsVars, depVars, idxVars>>

----------------------------------------------------------------------------
(* Specification of the resolution pipeline *)

Init ==
    /\ \E g \in AdjacencySources, listed \in {{}, Names} :
          package_graph = Restrict(g, {n \in Names : g[n] # <<>>} \cup listed)
    /\ root_package \in Names
    /\ filter_substring \in Filters
    /\ visited = {}
    /\ current_path = <<>>
    /\ result = <<>>
    /\ cycles_found = <<>>
    /\ frames = <<>>
    /\ returned = "none"
    /\ in_degree = <<>>
    /\ queue = <<>>
    /\ install_order = <<>>
    /\ pc = "main"
    /\ depends_field = <<>>
    /\ dependencies = <<>>
    /\ packages_data = <<>>
    /\ packages = <<>>

Next ==
    \/ MainCall
    \/ DfsFiltered
    \/ DfsCycle
    \/ DfsVisited
    \/ DfsExpand
    \/ DfsReturn
    \/ MainUnpack
    \/ MainCritical
    \/ TopoCall
    \/ TopoLoop
    \/ TopoReturn

Spec == Init /\ [][Next]_vars

\* a single-threaded program runs its next statement
FairSpec == Spec /\ WF_vars(Next)

----------------------------------------------------------------------------
(* extract_direct_dependencies *)

DepAtoms == {"a", "b", ",", "|", " ", "(", ")", "<", ">"}

\* 'a|b, c'
FieldAlternatives == <<"a", "|", "b", ",", " ", "c">>

\* 'bar (>= 2.0) | baz, qux'
FieldVersioned ==
    <<"bar", " ", "(", ">", "=", " ", "2.0", ")", " ", "|", " ", "baz",
      ",", " ", "qux">>

\* 'bar(>= 2.0)'
FieldAttached == <<"bar", "(", ">", "=", " ", "2.0", ")">>

DependsFields ==
    UNION {[1..n -> DepAtoms] : n \in 0..MaxFieldLen}
        \cup {FieldAlternatives, FieldVersioned, FieldAttached}

NonBlank(alt) == Strip(alt) # <<>>

\* line 65
Alternatives(dep_group) ==
    LET alts == SelectSeq(Split(dep_group, "|"), NonBlank)
    IN [k \in DOMAIN alts |-> SplitWhitespace(Strip(alts[k]))[1]]

\* lines 63-67: the list before the duplicates are removed
RECURSIVE FirstAlternatives(_)
FirstAlternatives(groups) ==
    IF groups = <<>> THEN <<>>
    ELSE LET alternatives == Alternatives(Head(groups))
         IN (IF alternatives # <<>> THEN <<alternatives[1]>> ELSE <<>>)
              \o FirstAlternatives(Tail(groups))

\* lines 60-61
ExtractNothing ==
    /\ pc = "extract"
    /\ depends_field = <<>>
    /\ dependencies' = <<>>
    /\ pc' = "extracted"
    /\ UNCHANGED <<dfsVars, depends_field, idxVars>>

\* lines 63-68
ExtractCall ==
    /\ pc = "extract"
    /\ depends_field # <<>>
    /\ dependencies' \in
           ListsOf(Range(FirstAlternatives(Split(depends_field, ","))))
    /\ pc' = "extracted"
    /\ UNCHANGED <<dfsVars, depends_field, idxVars>>

InitDeps ==
    /\ depends_field \in DependsFields
    /\ dependencies = <<>>
    /\ pc = "extract"
    /\ package_graph = <<>>
    /\ root_package = <<>>
    /\ filter_substring = <<>>
    /\ visited = {}
    /\ current_path = <<>>
    /\ result = <<>>
    /\ cycles_found = <<>>
    /\ frames = <<>>
    /\ returned = "none"
    /\ in_degree = <<>>
    /\ queue = <<>>
    /\ install_order = <<>>
    /\ packages_data = <<>>
    /\ packages = <<>>

NextDeps ==
    \/ ExtractNothing
    \/ ExtractCall

SpecDeps == InitDeps /\ [][NextDeps]_vars

----------------------------------------------------------------------------
(* parse_packages_index *)

\* '\n'.join(lines)
RECURSIVE JoinLines(_)
JoinLines(lines) ==
    IF lines = <<>> THEN <<>>
    ELSE IF Len(lines) = 1 THEN lines[1]
    ELSE lines[1] \o <<"\n">> \o JoinLines(Tail(lines))

IndexLines ==
    { <<"Package", ":", " ", "x">>,
      <<" ", "Package", " ", ":", "y">>,
      <<"Version", ":", " ", "1">>,
      <<"Architecture", ":", " ", "m">>,
      <<>>,
      <<" ">>,
      <<"x">> }

\* two stanzas for the same key, the first with a field the second lacks
TextRepeatedKey ==
    JoinLines(<< <<"Package", ":", " ", "x">>,
                 <<"Version", ":", " ", "1">>,
                 <<"Depends", ":", " ", "y">>,
                 <<>>,
                 <<"Package", ":", " ", "x">>,
                 <<"Version", ":", " ", "2">> >>)

IndexTexts ==
    {JoinLines(lines) : lines \in UNION {[1..n -> IndexLines] : n \in 0..MaxLines}}
        \cup {TextRepeatedKey}

\* the end of the leftmost match of \n\s*\n that starts at i
BlankRunEnds(s, i) ==
    {j \in (i + 1)..Len(s) :
        s[j] = "\n" /\ \A k \in (i + 1)..(j - 1) : s[k] \in Whitespace}

\* re.split(r'\n\s*\n', s), line 42
RECURSIVE SplitBlocks(_)
SplitBlocks(s) ==
    LET starts == {i \in DOMAIN s : s[i] = "\n" /\ BlankRunEnds(s, i) # {}}
    IN IF starts = {} THEN <<s>>
       ELSE LET i == CHOOSE x \in starts : \A y \in starts : x <= y
                j == CHOOSE x \in BlankRunEnds(s, i) :
                         \A y \in BlankRunEnds(s, i) : y <= x
            IN <<SubSeq(s, 1, i - 1)>>
                 \o SplitBlocks(SubSeq(s, j + 1, Len(s)))

\* d[key] = value
Put(d, key, value) == [k \in DOMAIN d \cup {key} |->
                          IF k = key THEN value ELSE d[k]]

\* lines 47-50: the for-loop over the lines of a block
RECURSIVE ParseLines(_, _)
ParseLines(lines, pkg_info) ==
    IF lines = <<>> THEN pkg_info
    ELSE LET line == Head(lines)
             colon == CHOOSE k \in DOMAIN line :
                          line[k] = ":" /\ \A j \in 1..(k - 1) : line[j] # ":"
         IN ParseLines(Tail(lines),
                IF ":" \in Range(line)
                THEN Put(pkg_info, Strip(SubSeq(line, 1, colon - 1)),
                         Strip(SubSeq(line, colon + 1, Len(line))))
                ELSE pkg_info)

\* ParseBlocks with a stanza merged into the entry its key already has
\* (packages[pkg_key].update(pkg_info)) instead of line 54
RECURSIVE ParseBlocksMerging(_, _)
ParseBlocksMerging(blocks, pkgs) ==
    IF blocks = <<>> THEN pkgs
    ELSE LET pkg_info == ParseLines(Split(Head(blocks), "\n"), <<>>)
             pkg_key == pkg_info[<<"Package">>] \o <<":">>
                          \o (IF <<"Architecture">> \in DOMAIN pkg_info
                              THEN pkg_info[<<"Architecture">>]
                              ELSE <<"all">>)
         IN ParseBlocksMerging(Tail(blocks),
                IF <<"Package">> \in DOMAIN pkg_info
                   /\ <<"Version">> \in DOMAIN pkg_info
                THEN Put(pkgs, pkg_key,
                         IF pkg_key \in DOMAIN pkgs
                         THEN pkg_info @@ pkgs[pkg_key] ELSE pkg_info)
                ELSE pkgs)

\* lines 44-54: the for-loop over the blocks
RECURSIVE ParseBlocks(_, _)
ParseBlocks(blocks, pkgs) ==
    IF blocks = <<>> THEN pkgs
    ELSE LET pkg_info == ParseLines(Split(Head(blocks), "\n"), <<>>)
             pkg_key == pkg_info[<<"Package">>] \o <<":">>
                          \o (IF <<"Architecture">> \in DOMAIN pkg_info
                              THEN pkg_info[<<"Architecture">>]
                              ELSE <<"all">>)
         IN ParseBlocks(Tail(blocks),
                IF <<"Package">> \in DOMAIN pkg_info
                   /\ <<"Version">> \in DOMAIN pkg_info
                THEN Put(pkgs, pkg_key, pkg_info)
                ELSE pkgs)

\* lines 41-56
ParseCall ==
    /\ pc = "parse"
    /\ packages' = ParseBlocks(SplitBlocks(Strip(packages_data)), <<>>)
    /\ pc' = "parsed"
    /\ UNCHANGED <<dfsVars, depVars, packages_data>>

InitIndex ==
    /\ packages_data \in IndexTexts
    /\ packages = <<>>
    /\ pc = "parse"
    /\ depends_field = <<>>
    /\ dependencies = <<>>
    /\ package_graph = <<>>
    /\ root_package = <<>>
    /\ filter_substring = <<>>
    /\ visited = {}
    /\ current_path = <<>>
    /\ result = <<>>
    /\ cycles_found = <<>>
    /\ frames = <<>>
    /\ returned = "none"
    /\ in_degree = <<>>
    /\ queue = <<>>
    /\ install_order = <<>>

NextIndex == ParseCall

SpecIndex == InitIndex /\ [][NextIndex]_vars

----------------------------------------------------------------------------
(* Vocabulary of the properties *)

NoDuplicates(s) == \A i, j \in DOMAIN s : s[i] = s[j] => i = j

Position(s, x) == CHOOSE i \in DOMAIN s : s[i] = x

\* two characters that are equal when case is ignored
SameLetter(x, y) ==
    \/ x = y
    \/ {x, y} \in {{"A", "a"}, {"B", "b"}, {"C", "c"}, {"L", "l"}}

\* name holds sub at some offset, case ignored
HoldsIgnoringCase(name, sub) ==
    \E off \in 0..(Len(name) - Len(sub)) :
        \A j \in DOMAIN sub : SameLetter(name[off + j], sub[j])

Excluded(name) ==
    filter_substring # <<>> /\ HoldsIgnoringCase(name, filter_substring)

\* the names reachable from the names of S along edges of the adjacency
\* source, through names of allowed only
RECURSIVE ReachableFrom(_, _)
ReachableFrom(S, allowed) ==
    LET T == S \cup (UNION {Range(Get(package_graph, n)) : n \in S}
                       \cap allowed)
    IN IF T = S THEN S ELSE ReachableFrom(T, allowed)

Reachable == ReachableFrom({root_package}, Names)

ReachableUnfiltered ==
    IF Excluded(root_package) THEN {}
    ELSE ReachableFrom({root_package}, {n \in Names : ~Excluded(n)})

\* the source has the directed cycle a -> b -> a
TwoCycle(a, b) ==
    /\ a # b
    /\ b \in Range(Get(package_graph, a))
    /\ a \in Range(Get(package_graph, b))

\* the names of a rendered cycle record
RecordNames(record) == Range(Split(record, " -> "))

DfsReturned == returned # "none"

\* scenario 1: 'A: B, C' / 'B: C' / 'C:', root A, no filter
Scenario1 ==
    /\ Get(package_graph, PkgA) = <<PkgB, PkgC>>
    /\ Get(package_graph, PkgB) = <<PkgC>>
    /\ Get(package_graph, PkgC) = <<>>
    /\ root_package = PkgA
    /\ filter_substring = <<>>

\* scenario 2: 'A: B' / 'B: A', root A
Scenario2 ==
    /\ Get(package_graph, PkgA) = <<PkgB>>
    /\ Get(package_graph, PkgB) = <<PkgA>>
    /\ root_package = PkgA
    /\ filter_substring = <<>>

----------------------------------------------------------------------------
(* Properties *)

\* C1: the install order holds no name twice, and a dependency D of P stands
\* before P whenever both are in the order; scenario 1 gives [C, B, A].
C1_DependenciesFirst ==
    pc = "success" =>
        /\ NoDuplicates(install_order)
        /\ \A P \in DOMAIN result : \A D \in Range(result[P]) :
               (P # D /\ P \in Range(install_order)
                      /\ D \in Range(install_order))
               => Position(install_order, D) < Position(install_order, P)
        /\ Scenario1 => install_order = <<PkgC, PkgB, PkgA>>

\* C2: a call for a dependency that is on the current path adds no edge to
\* the result graph, and only records the cycle; scenario 2 ends with the
\* graph {A: [], B: []} and the one record 'A -> B -> A'.
C2_NoCycleClosingEdge ==
    [][ /\ (Calling /\ ~Filtered(filter_substring, Callee)
                    /\ Callee \in Range(current_path))
           => result' = result
        /\ (Scenario2 /\ pc' = "unpack")
           => /\ result' = (PkgA :> <<>>) @@ (PkgB :> <<>>)
              /\ cycles_found' = << <<"A", " -> ", "B", " -> ", "A">> >>
      ]_vars

\* what C3 asks of the result for the names of R: every directed cycle
\* a -> b -> a among them is in some cycle record, and every other name of
\* R is a key of the graph
CyclesReported(R) ==
    \A a \in R, b \in R :
        TwoCycle(a, b) =>
            /\ returned = "tuple"
            /\ \E k \in DOMAIN cycles_found :
                   {a, b} \subseteq RecordNames(cycles_found[k])
            /\ R \ {a, b} \subseteq DOMAIN result

\* C3, as stated: with a cycle a -> b -> a among the non-filtered names
\* reachable from the root, dfs_build_graph returns a cycle record holding
\* a and b and a key for every other non-filtered reachable name.
C3_CycleToleratedAnyPath ==
    DfsReturned => CyclesReported({n \in Reachable : ~Excluded(n)})

\* the work left to a traversal in progress: the loop iterations and the
\* return of every frame on the stack, and the expansion of every package
\* not yet visited
RECURSIVE FrameWork(_)
FrameWork(stk) ==
    IF stk = <<>> THEN 0
    ELSE Len(Get(package_graph, Head(stk).package)) + 2 - Head(stk).i
           + FrameWork(Tail(stk))

RECURSIVE ExpansionWork(_)
ExpansionWork(S) ==
    IF S = {} THEN 0
    ELSE LET n == CHOOSE x \in S : TRUE
         IN Len(Get(package_graph, n)) + 2 + ExpansionWork(S \ {n})

Work == FrameWork(frames) + ExpansionWork(Names \ visited)

\* C3, amended: dfs_build_graph terminates (while it runs it has a next
\* step, and every step takes from the finite work left), and with a cycle
\* a -> b -> a among the names reachable from the root through non-filtered
\* names only, it returns a cycle record holding a and b and a key for every
\* other name so reachable.
C3_CycleTolerated ==
    /\ [](pc = "dfs" => (Work >= 0 /\ ENABLED Next))
    /\ [][(pc = "dfs" /\ pc' = "dfs") => Work' < Work]_vars
    /\ [](DfsReturned => CyclesReported(ReachableUnfiltered))

C3_Witness ==
    /\ DfsReturned
    /\ filter_substring # <<>>
    /\ \E a \in ReachableUnfiltered, b \in ReachableUnfiltered :
           /\ TwoCycle(a, b)
           /\ ReachableUnfiltered \ {a, b} # {}

\* C4: with a non-empty filter, at every point of the traversal and in the
\* final result, no name that holds the filter substring (case ignored) is
\* a key of the result graph or stands in an edge list.
C4_FilteredAbsent ==
    \A n \in Names :
        Excluded(n) =>
            /\ n \notin DOMAIN result
            /\ \A k \in DOMAIN result : n \notin Range(result[k])

C4_Witness ==
    /\ pc = "success"
    /\ \E k \in DOMAIN result : \E n \in Range(Get(package_graph, k)) :
           /\ Excluded(n)
           /\ Lower(n) # Lower(filter_substring)
           /\ filter_substring # Lower(filter_substring)
           /\ result[k] # <<>>

\* C5: a call for a package P that is on the current path stores the path
\* from the first occurrence of P to the top of the stack, closed by P, and
\* nothing of what is below P; no record is stored twice; the call does not
\* expand P.
C5_CycleRecordFromFirstOccurrence ==
    [][ (Calling /\ ~Filtered(filter_substring, Callee)
                 /\ Callee \in Range(current_path))
        => /\ JoinArrow(Append(SubSeq(current_path,
                                      Position(current_path, Callee),
                                      Len(current_path)), Callee))
                  \in Range(cycles_found')
           /\ NoDuplicates(cycles_found')
           /\ Len(frames') <= Len(frames)
      ]_vars

\* C9: with a root that matches the filter, dfs_build_graph hands main the
\* pair of an empty graph and an empty cycle list, topological_sort returns
\* the empty order, and main does not end in the critical-error state.
C9_FilteredRootCompletes ==
    Filtered(filter_substring, root_package) =>
        /\ DfsReturned =>
               returned = "tuple" /\ result = <<>> /\ cycles_found = <<>>
        /\ pc # "critical"
        /\ pc = "success" => install_order = <<>>

\* C10: the keys of the returned graph are exactly the names reachable from
\* the root through non-filtered names only; a key the source does not
\* describe has no edges; a package is expanded only if it was not expanded
\* before.
C10_KeysAreReachable ==
    /\ [](DfsReturned =>
            /\ DOMAIN result = ReachableUnfiltered
            /\ \A n \in DOMAIN result :
                   n \notin DOMAIN package_graph => result[n] = <<>>)
    /\ [][ Len(frames') > Len(frames)
           => /\ frames'[Len(frames')].package \notin visited
              /\ visited' = visited \cup {frames'[Len(frames')].package}
         ]_vars

C10_Witness ==
    /\ DfsReturned
    /\ \E n \in DOMAIN result : n \notin DOMAIN package_graph
    /\ \E n \in Reachable : ~Excluded(n) /\ n \notin DOMAIN result
    /\ DOMAIN result # {}

\* the text of alt up to its first space or open parenthesis
BareName(alt) ==
    IF \E k \in DOMAIN alt : alt[k] \in {" ", "("}
    THEN SubSeq(alt, 1, (CHOOSE k \in DOMAIN alt :
                            /\ alt[k] \in {" ", "("}
                            /\ \A j \in 1..(k - 1) : alt[j] \notin {" ", "("})
                        - 1)
    ELSE alt

\* the first '|'-alternative of a comma-separated group, blanks around it
\* dropped
FirstAlternative(group) == Strip(Split(group, "|")[1])

\* the first '|'-alternative of a group that is not blank
FirstNonBlankAlternative(group) ==
    LET alts == SelectSeq(Split(group, "|"), NonBlank)
    IN IF alts = <<>> THEN <<>> ELSE Strip(alts[1])

\* C6: the returned list holds no name twice; it holds the bare name of the
\* first alternative of every comma-separated group (stated for the groups
\* whose first alternative starts with a name), and every name it holds is
\* the bare name of the first non-blank alternative of some group, so that
\* no later alternative shows; 'a|b, c' gives {a, c} and
\* 'bar (>= 2.0) | baz, qux' gives {bar, qux}.
C6_FirstAlternativePerGroup ==
    pc = "extracted" =>
        LET groups == Range(Split(depends_field, ","))
        IN /\ NoDuplicates(dependencies)
           /\ \A g \in groups :
                  BareName(FirstAlternative(g)) # <<>>
                  => BareName(FirstAlternative(g)) \in Range(dependencies)
           /\ \A name \in Range(dependencies) : \E g \in groups :
                  name = BareName(FirstNonBlankAlternative(g))
           /\ depends_field = FieldAlternatives
              => Range(dependencies) = {<<"a">>, <<"c">>}
           /\ depends_field = FieldVersioned
              => Range(dependencies) = {<<"bar">>, <<"qux">>}

\* C7: no returned name holds a space or a parenthesis or is wrapped in
\* angle brackets; 'bar(>= 2.0)' gives 'bar'.
C7_BareNames ==
    pc = "extracted" =>
        /\ \A name \in Range(dependencies) :
               /\ Range(name) \cap {" ", "(", ")"} = {}
               /\ ~(name # <<>> /\ name[1] = "<" /\ name[Len(name)] = ">")
        /\ depends_field = FieldAttached
           => Range(dependencies) = {<<"bar">>}

\* the lines of the index text
TextLines == Split(packages_data, "\n")

BlankLine(line) == Range(line) \subseteq Whitespace

\* the stanzas of the text of these lines: the maximal runs <<first, last>>
\* of lines that are not blank
Stanzas(lines) ==
    LET solid == {l \in DOMAIN lines : ~BlankLine(lines[l])}
    IN {st \in solid \X solid :
           /\ st[1] <= st[2]
           /\ st[1]..st[2] \subseteq solid
           /\ (st[1] - 1) \notin solid
           /\ (st[2] + 1) \notin solid}

FirstColon(line) ==
    CHOOSE k \in DOMAIN line :
        line[k] = ":" /\ \A j \in 1..(k - 1) : line[j] # ":"

LineKey(line) == Strip(SubSeq(line, 1, FirstColon(line) - 1))

LineValue(line) == Strip(SubSeq(line, FirstColon(line) + 1, Len(line)))

\* the lines of stanza st that give the field key
FieldLines(lines, st, key) ==
    {l \in st[1]..st[2] :
        ":" \in Range(lines[l]) /\ LineKey(lines[l]) = key}

HasField(lines, st, key) == FieldLines(lines, st, key) # {}

\* the value the last of them gives
FieldValue(lines, st, key) ==
    LET given == FieldLines(lines, st, key)
    IN LineValue(lines[CHOOSE l \in given : \A m \in given : m <= l])

StanzaFields(lines, st) ==
    [key \in {LineKey(lines[l]) :
                l \in {m \in st[1]..st[2] : ":" \in Range(lines[m])}}
        |-> FieldValue(lines, st, key)]

Retained(lines, st) ==
    HasField(lines, st, <<"Package">>) /\ HasField(lines, st, <<"Version">>)

StanzaKey(lines, st) ==
    FieldValue(lines, st, <<"Package">>) \o <<":">>
        \o (IF HasField(lines, st, <<"Architecture">>)
            THEN FieldValue(lines, st, <<"Architecture">>) ELSE <<"all">>)

\* C8: the keys of the returned mapping are the 'Package:Architecture'
\* strings ('all' for no Architecture) of the stanzas that have a Package and
\* a Version field; the other stanzas and the lines without a colon leave no
\* trace; a key maps to the fields of the last stanza that gives it, and to
\* nothing of an earlier one.
C8_IndexOfStanzas ==
    pc = "parsed" =>
        LET lines == TextLines
            kept == {st \in Stanzas(lines) : Retained(lines, st)}
        IN /\ DOMAIN packages = {StanzaKey(lines, st) : st \in kept}
           /\ \A st \in kept :
                  (\A other \in kept :
                       StanzaKey(lines, other) = StanzaKey(lines, st)
                       => other[1] <= st[1])
                  => packages[StanzaKey(lines, st)] = StanzaFields(lines, st)

C8_Witness ==
    /\ pc = "parsed"
    /\ LET lines == TextLines
       IN \E st \in Stanzas(lines), other \in Stanzas(lines) :
              /\ Retained(lines, st) /\ Retained(lines, other)
              /\ other[1] < st[1]
              /\ StanzaKey(lines, other) = StanzaKey(lines, st)
              /\ DOMAIN StanzaFields(lines, other)
                     # DOMAIN StanzaFields(lines, st)

\* the source has a directed cycle through a name reachable from the root
CycleReachable ==
    \E n \in Reachable :
        n \in ReachableFrom(Range(Get(package_graph, n)), Names)

\* the case of C11: a root that is not filtered, and no cycle of the source
\* within its reach
AcyclicRun == ~Excluded(root_package) /\ ~CycleReachable

\* C11: for a root that is not filtered and a source with no cycle reachable
\* from it, topological_sort terminates (while its loop runs it has a next
\* step, and every iteration adds one name to an order that never outgrows
\* the graph), and the order it returns holds every key of the graph that
\* dfs_build_graph returned exactly once; so an order that misses a key
\* means a cycle reachable from the root.
C11_OrderCoversGraph ==
    /\ []((AcyclicRun /\ pc = "topo")
            => /\ ENABLED Next
               /\ Len(install_order) <= Cardinality(DOMAIN result))
    /\ [][(AcyclicRun /\ pc = "topo" /\ pc' = "topo")
            => Len(install_order') = Len(install_order) + 1]_vars
    /\ []((AcyclicRun /\ pc = "success")
            => /\ NoDuplicates(install_order)
               /\ Range(install_order) = DOMAIN result)

C11_Witness ==
    /\ AcyclicRun
    /\ pc = "success"
    /\ Len(install_order) >= 3
    /\ \E n \in DOMAIN result : InDegree(result)[n] >= 2

====
